---- MODULE Spec2Model ----
(***************************************************************************)
(* A model of plugins/modules/my_own_module.py: the Ansible module that    *)
(* creates a file only if it does not exist.  One invocation is the body   *)
(* of run_module(); the filesystem it reads and writes is part of the      *)
(* state.  Strings are sequences of one-character strings, so that         *)
(* int(mode, 8) and os.path.dirname are computed as Python computes them.  *)
(***************************************************************************)
EXTENDS Integers, Sequences, FiniteSets, TLC

(***************************************************************************)
(* Bounds                                                                  *)
(***************************************************************************)
\* Number of invocations a sequential run performs one after the other.
MaxInvocations == 2

(***************************************************************************)
(* int(mode, 8): Python's parser for an explicit base of 8                 *)
(***************************************************************************)
OctDigits == {"0", "1", "2", "3", "4", "5", "6", "7"}

DigitValue(c) ==
  CASE c = "0" -> 0 [] c = "1" -> 1 [] c = "2" -> 2 [] c = "3" -> 3
    [] c = "4" -> 4 [] c = "5" -> 5 [] c = "6" -> 6 [] c = "7" -> 7

\* Characters int() strips from both ends before parsing.
Whitespace == {" "}

RECURSIVE StripLeft(_)
StripLeft(s) ==
  IF s # <<>> /\ Head(s) \in Whitespace THEN StripLeft(Tail(s)) ELSE s

RECURSIVE StripRight(_)
StripRight(s) ==
  IF s # <<>> /\ s[Len(s)] \in Whitespace
  THEN StripRight(SubSeq(s, 1, Len(s) - 1))
  ELSE s

Strip(s) == StripRight(StripLeft(s))

\* The text after the optional sign.
Unsigned(t) == IF t # <<>> /\ Head(t) \in {"+", "-"} THEN Tail(t) ELSE t

\* The text after the optional "0o" / "0O" prefix; one underscore may follow
\* the prefix.
Unprefixed(u) ==
  IF Len(u) >= 2 /\ u[1] = "0" /\ u[2] \in {"o", "O"}
  THEN LET w == SubSeq(u, 3, Len(u))
       IN  IF w # <<>> /\ Head(w) = "_" THEN Tail(w) ELSE w
  ELSE u

\* Digits with single underscores between them, at least one digit.
WellFormedDigits(v) ==
  /\ v # <<>>
  /\ \A i \in 1..Len(v) : v[i] \in OctDigits \cup {"_"}
  /\ v[1] # "_"
  /\ v[Len(v)] # "_"
  /\ \A i \in 1..(Len(v) - 1) : ~(v[i] = "_" /\ v[i + 1] = "_")

RECURSIVE Magnitude(_, _)
Magnitude(v, acc) ==
  IF v = <<>> THEN acc
  ELSE IF Head(v) = "_" THEN Magnitude(Tail(v), acc)
  ELSE Magnitude(Tail(v), 8 * acc + DigitValue(Head(v)))

\* int(mode, 8) raises ValueError exactly when this is FALSE.
ParsesAsOctal(mode) == WellFormedDigits(Unprefixed(Unsigned(Strip(mode))))

\* The value of int(mode, 8) for a mode it accepts.
OctalValue(mode) ==
  LET t == Strip(mode)
      m == Magnitude(Unprefixed(Unsigned(t)), 0)
  IN  IF t # <<>> /\ Head(t) = "-" THEN 0 - m ELSE m

(***************************************************************************)
(* os.path.dirname (posixpath)                                             *)
(***************************************************************************)
\* p.rfind('/') + 1: the length of the prefix that ends at the last slash.
RECURSIVE LastSlash(_, _)
LastSlash(p, i) ==
  IF i = 0 THEN 0 ELSE IF p[i] = "/" THEN i ELSE LastSlash(p, i - 1)

RECURSIVE RStripSlash(_)
RStripSlash(h) ==
  IF h # <<>> /\ h[Len(h)] = "/"
  THEN RStripSlash(SubSeq(h, 1, Len(h) - 1))
  ELSE h

AllSlashes(h) == \A i \in 1..Len(h) : h[i] = "/"

dirname(p) ==
  LET head == SubSeq(p, 1, LastSlash(p, Len(p)))
  IN  IF head # <<>> /\ ~AllSlashes(head) THEN RStripSlash(head) ELSE head

(***************************************************************************)
(* The filesystem                                                          *)
(*                                                                         *)
(* A tree is a function from keys to entries.  A key is the sequence of    *)
(* the names on the way from the root directory, which is the key << >>,   *)
(* is always a directory and is also the working directory.  A symlink     *)
(* holds the path it points to.                                            *)
(***************************************************************************)
Dir == [type |-> "dir", bytes |-> <<>>, perm |-> 493, to |-> <<>>]

File(b, m) == [type |-> "file", bytes |-> b, perm |-> m, to |-> <<>>]

Link(t) == [type |-> "link", bytes |-> <<>>, perm |-> 511, to |-> t]

\* The names of a path: the pieces between slashes, empty pieces dropped.
RECURSIVE Split(_, _, _)
Split(p, name, names) ==
  IF p = <<>> THEN (IF name = <<>> THEN names ELSE Append(names, name))
  ELSE IF Head(p) = "/"
       THEN Split(Tail(p), <<>>, IF name = <<>> THEN names ELSE Append(names, name))
       ELSE Split(Tail(p), Append(name, Head(p)), names)

Components(p) == Split(p, <<>>, <<>>)

IsDirKey(f, k) == k = <<>> \/ (k \in DOMAIN f /\ f[k].type = "dir")

\* Path resolution as the kernel does it, following every symlink (`fuel`
\* bounds the number of symlinks followed; running out is ELOOP).  The answer
\* is "found" with the key of the entry, "absent" with the key at which the
\* last name could be created, or "error".
RECURSIVE Walk(_, _, _, _)
Walk(f, cur, rest, fuel) ==
  IF rest = <<>> THEN [st |-> "found", key |-> cur]
  ELSE IF ~IsDirKey(f, cur) THEN [st |-> "error", key |-> cur]
  ELSE LET nxt == Append(cur, Head(rest))
       IN  IF nxt \notin DOMAIN f
           THEN IF Tail(rest) = <<>> THEN [st |-> "absent", key |-> nxt]
                ELSE [st |-> "error", key |-> nxt]
           ELSE IF f[nxt].type = "link"
           THEN IF fuel = 0 THEN [st |-> "error", key |-> nxt]
                ELSE Walk(f, <<>>, Components(f[nxt].to) \o Tail(rest), fuel - 1)
           ELSE Walk(f, nxt, Tail(rest), fuel)

TrailingSlash(p) == p # <<>> /\ p[Len(p)] = "/"

\* stat(2) of a path: the empty path does not resolve, and a path with a
\* trailing slash resolves only to a directory.
Stat(f, p) ==
  LET r == Walk(f, <<>>, Components(p), 4)
  IN  IF p = <<>> THEN [st |-> "error", key |-> <<>>]
      ELSE IF r.st = "found" /\ TrailingSlash(p) /\ ~IsDirKey(f, r.key)
      THEN [st |-> "error", key |-> r.key]
      ELSE IF r.st = "absent" /\ TrailingSlash(p)
      THEN [st |-> "error", key |-> r.key]
      ELSE r

\* os.path.isdir and os.path.exists: both follow symlinks and answer False
\* when stat fails.
isdir(f, p) == Stat(f, p).st = "found" /\ IsDirKey(f, Stat(f, p).key)

exists(f, p) == Stat(f, p).st = "found"

\* The tree with key k holding entry e.
Put(f, k, e) == [x \in DOMAIN f \cup {k} |-> IF x = k THEN e ELSE f[x]]

\* open(path, 'w'): O_WRONLY | O_CREAT | O_TRUNC.  The answer is the errno
\* ("" for success), the key of the opened file and the tree afterwards: an
\* existing file is truncated, a missing one is created with the creation-time
\* permission bits `cmode` (0666 masked by the umask).
OpenForWrite(f, p, cmode) ==
  LET r == Walk(f, <<>>, Components(p), 4)
  IN  IF p = <<>> THEN [errno |-> "ENOENT", key |-> <<>>, fs |-> f]
      ELSE IF r.st = "error" THEN [errno |-> "ENOENT", key |-> <<>>, fs |-> f]
      ELSE IF TrailingSlash(p) \/ IsDirKey(f, r.key)
      THEN [errno |-> "EISDIR", key |-> <<>>, fs |-> f]
      ELSE IF r.st = "absent"
      THEN [errno |-> "", key |-> r.key, fs |-> Put(f, r.key, File(<<>>, cmode))]
      ELSE [errno |-> "", key |-> r.key,
            fs |-> Put(f, r.key, File(<<>>, f[r.key].perm))]

\* write(2) through a descriptor opened without O_APPEND: the data lands at the
\* descriptor's offset, which is 0 here, over whatever the file holds.
Overlay(old, data) == data \o SubSeq(old, Len(data) + 1, Len(old))

WriteAt0(f, k, data) == Put(f, k, [f[k] EXCEPT !.bytes = Overlay(@, data)])

\* chmod(2): the kernel keeps the twelve permission bits of the mode.
PermissionBits(m) == m % 4096

\* os.chmod(path, m), for a value m that fits a C int (every mode string of
\* ModeSet does; a longer one makes os.chmod raise OverflowError, which is one
\* of the errors SetMode may raise).
Chmod(f, p, m) ==
  LET r == Stat(f, p)
  IN  IF r.st # "found" THEN [errno |-> "ENOENT", fs |-> f]
      ELSE IF r.key = <<>> THEN [errno |-> "EPERM", fs |-> f]
      ELSE [errno |-> "", fs |-> Put(f, r.key, [f[r.key] EXCEPT !.perm = PermissionBits(m)])]

(***************************************************************************)
(* Inputs                                                                  *)
(***************************************************************************)
Procs == {1, 2}

\* Mode strings: the default, a prefixed one, a signed one, one with more than
\* twelve bits, one with a leading blank and an underscore, and three that
\* int(mode, 8) refuses.
Mode0644 == <<"0", "6", "4", "4">>

Mode0o600 == <<"0", "o", "6", "0", "0">>

ModeMinus7 == <<"-", "7">>

Mode10644 == <<"1", "0", "6", "4", "4">>

Mode7_5 == <<" ", "7", "_", "5">>

ModeSet ==
  { Mode0644, Mode0o600, ModeMinus7, Mode10644, Mode7_5,
    <<"8", "9">>, <<>>, <<"_", "7">> }

ContentSet == { <<>>, <<"x">>, <<"y", "y">> }

\* Paths: absolute, bare, through a name that may be a symlink to a
\* directory, with a trailing slash, and the empty path.
PathSet ==
  { <<"/", "d", "/", "f">>, <<"f">>, <<"l", "/", "f">>, <<"d", "/">>, <<>> }

\* Creation-time permission bits, 0666 masked by the umask: 0644 and 0600.
CreateModeSet == {420, 384}

OldBytes == <<"o", "l", "d">>

KeyD == << <<"d">> >>

KeyDF == << <<"d">>, <<"f">> >>

KeyDT == << <<"d">>, <<"t">> >>

KeyF == << <<"f">> >>

KeyL == << <<"l">> >>

EmptyTree == [k \in {} |-> Dir]

\* The trees a behaviour may start from: nothing; the parent directory only;
\* a file, a directory, a symlink to a file, a dangling symlink whose target
\* can be created, a dangling symlink whose target cannot, and a symlink loop
\* at d/f; a file where the parent directory should be; a file at f; and a
\* symlink l to the directory d.
TreeSet ==
  { EmptyTree,
    Put(EmptyTree, KeyD, Dir),
    Put(Put(EmptyTree, KeyD, Dir), KeyDF, File(OldBytes, 416)),
    Put(Put(EmptyTree, KeyD, Dir), KeyDF, Dir),
    Put(Put(Put(EmptyTree, KeyD, Dir), KeyDT, File(OldBytes, 416)),
        KeyDF, Link(<<"/", "d", "/", "t">>)),
    Put(Put(EmptyTree, KeyD, Dir), KeyDF, Link(<<"/", "d", "/", "t">>)),
    Put(Put(EmptyTree, KeyD, Dir), KeyDF, Link(<<"/", "x", "/", "t">>)),
    Put(Put(EmptyTree, KeyD, Dir), KeyDF, Link(<<"/", "d", "/", "f">>)),
    Put(EmptyTree, KeyD, File(OldBytes, 416)),
    Put(EmptyTree, KeyF, File(OldBytes, 416)),
    Put(Put(EmptyTree, KeyD, Dir), KeyL, Link(<<"d">>)) }

(***************************************************************************)
(* State                                                                   *)
(***************************************************************************)
VARIABLES
  fs,          \* the filesystem tree
  createMode,  \* permission bits a newly created file gets
  target,      \* the path every invocation of this behaviour is given
  inputs,      \* the contents, modes and check-mode flags the caller may pass
  budget,      \* budget[p]: invocations process p may still start
  pc,          \* pc[p]: where process p is in run_module()
  params,      \* params[p]: module.params of the invocation
  check_mode,  \* check_mode[p]: module.check_mode of the invocation
  result,      \* result[p]: the result dict
  fd,          \* fd[p]: the key of the file the invocation holds open
  out,         \* out[p]: what exit_json / fail_json was called with
  fsAtStart,   \* fsAtStart[p]: the tree when the invocation began
  fsAtCheck,   \* fsAtCheck[p]: the tree when the existence check ran
  touched,     \* touched[p]: the filesystem calls the invocation has made
  faulted,     \* faulted[p]: a platform error was raised in the invocation
  fsInit,      \* the tree the behaviour began with
  creations,   \* successful non-dry-run invocations that reported created
  creator,     \* params of the first such invocation
  lastWriter   \* the process whose write(2) came last

vars ==
  << fs, createMode, target, inputs, budget, pc, params, check_mode, result,
     fd, out, fsAtStart, fsAtCheck, touched, faulted, fsInit, creations,
     creator, lastWriter >>

NoParams == [path |-> <<>>, content |-> <<>>, mode |-> <<>>]

NoOutput == [failed |-> FALSE, fields |-> <<>>]

\* result = dict(created=False, path='', content='')
FreshResult == [created |-> FALSE, path |-> <<>>, content |-> <<>>]

AllInputs == [contents |-> ContentSet, modes |-> ModeSet, checks |-> BOOLEAN]

\* What two racing callers pass: two contents of different lengths, two modes
\* that parse and one that does not.
RaceInputs ==
  [ contents |-> { <<"x">>, <<"y", "y">> },
    modes |-> { Mode0644, Mode0o600, <<"8", "9">> },
    checks |-> BOOLEAN ]

RacePathSet == { <<"/", "d", "/", "f">>, <<"f">> }

RaceTreeSet ==
  { EmptyTree, Put(EmptyTree, KeyD, Dir),
    Put(Put(EmptyTree, KeyD, Dir), KeyDF, Link(<<"/", "d", "/", "t">>)) }

InitCommon ==
  /\ pc = [p \in Procs |-> "idle"]
  /\ params = [p \in Procs |-> NoParams]
  /\ check_mode = [p \in Procs |-> FALSE]
  /\ result = [p \in Procs |-> FreshResult]
  /\ fd = [p \in Procs |-> <<>>]
  /\ out = [p \in Procs |-> NoOutput]
  /\ fsAtStart = [p \in Procs |-> fs]
  /\ fsAtCheck = [p \in Procs |-> fs]
  /\ touched = [p \in Procs |-> <<>>]
  /\ faulted = [p \in Procs |-> FALSE]
  /\ fsInit = fs
  /\ creations = 0
  /\ creator = NoParams
  /\ lastWriter = 0

\* One caller, invoking the module MaxInvocations times in a row.
Init ==
  /\ fs \in TreeSet
  /\ createMode \in CreateModeSet
  /\ target \in PathSet
  /\ inputs = AllInputs
  /\ budget = [p \in Procs |-> IF p = 1 THEN MaxInvocations ELSE 0]
  /\ InitCommon

\* Two callers, each invoking the module once, their steps interleaved.
RaceInit ==
  /\ fs \in RaceTreeSet
  /\ createMode \in CreateModeSet
  /\ target \in RacePathSet
  /\ inputs = RaceInputs
  /\ budget = [p \in Procs |-> 1]
  /\ InitCommon

(***************************************************************************)
(* run_module()                                                            *)
(***************************************************************************)
\* exit_json(**result)
SuccessPayload(r) == [failed |-> FALSE, fields |-> r]

\* fail_json(msg=..., **result)
FailurePayload(m, r) ==
  [ failed |-> TRUE,
    fields |-> [msg |-> m, created |-> r.created, path |-> r.path,
                content |-> r.content] ]

\* fail_json(msg=f"Invalid mode '{mode}'. Use octal format like '0644'.")
InvalidModePayload(mode) ==
  [ failed |-> TRUE,
    fields |-> [msg |-> [text |-> "Invalid mode", about |-> mode, error |-> ""]] ]

\* f"Parent directory does not exist: {dirname}"
MissingParentMsg(d) ==
  [text |-> "Parent directory does not exist", about |-> d, error |-> ""]

\* f"Failed to create file '{path}': {str(e)}"
WriteFailedMsg(path, e) ==
  [text |-> "Failed to create file", about |-> path, error |-> e]

\* exit_json and fail_json end the process.
Finish(p, payload) ==
  /\ pc' = [pc EXCEPT ![p] = "done"]
  /\ out' = [out EXCEPT ![p] = payload]

\* The caller runs the module: AnsibleModule(...) reads the parameters and the
\* check-mode flag, and result is initialised.
Start(p) ==
  /\ pc[p] \in {"idle", "done"}
  /\ budget[p] > 0
  /\ \E c \in inputs.contents, m \in inputs.modes :
       params' = [params EXCEPT ![p] = [path |-> target, content |-> c, mode |-> m]]
  /\ \E chk \in inputs.checks : check_mode' = [check_mode EXCEPT ![p] = chk]
  /\ budget' = [budget EXCEPT ![p] = @ - 1]
  /\ pc' = [pc EXCEPT ![p] = "validate"]
  /\ result' = [result EXCEPT ![p] = FreshResult]
  /\ out' = [out EXCEPT ![p] = NoOutput]
  /\ fd' = [fd EXCEPT ![p] = <<>>]
  /\ fsAtStart' = [fsAtStart EXCEPT ![p] = fs]
  /\ fsAtCheck' = [fsAtCheck EXCEPT ![p] = fs]
  /\ touched' = [touched EXCEPT ![p] = <<>>]
  /\ faulted' = [faulted EXCEPT ![p] = FALSE]
  /\ UNCHANGED << fs, createMode, target, inputs, fsInit, creations, creator,
                  lastWriter >>

\* Mutant of ModeIsValid: the mode string is not validated.
ModeIsValid_Unchecked(p) == TRUE

\* try: int(mode, 8) / except ValueError
ModeIsValid(p) == ParsesAsOctal(params[p].mode)

\* "Validate mode format", then result['path'] and result['content'].
ValidateMode(p) ==
  /\ pc[p] = "validate"
  /\ IF ModeIsValid(p)
     THEN /\ result' = [result EXCEPT ![p].path = params[p].path,
                                      ![p].content = params[p].content]
          /\ pc' = [pc EXCEPT ![p] = "parent"]
          /\ out' = out
     ELSE /\ Finish(p, InvalidModePayload(params[p].mode))
          /\ result' = result
  /\ UNCHANGED << fs, createMode, target, inputs, budget, params, check_mode,
                  fd, fsAtStart, fsAtCheck, touched, faulted, fsInit,
                  creations, creator, lastWriter >>

\* Mutant of ParentMissing: the parent directory is not checked.
ParentMissing_Unchecked(p) == FALSE

\* if dirname and not os.path.isdir(dirname)
ParentMissing(p) ==
  dirname(params[p].path) # <<>> /\ ~isdir(fs, dirname(params[p].path))

\* "Check if parent directory exists".  isdir is called only for a non-empty
\* dirname.
CheckParent(p) ==
  /\ pc[p] = "parent"
  /\ touched' = [touched EXCEPT ![p] =
                   IF dirname(params[p].path) # <<>> THEN Append(@, "isdir") ELSE @]
  /\ IF ParentMissing(p)
     THEN Finish(p, FailurePayload(MissingParentMsg(dirname(params[p].path)),
                                  result[p]))
     ELSE /\ pc' = [pc EXCEPT ![p] = "exists"]
          /\ out' = out
  /\ UNCHANGED << fs, createMode, target, inputs, budget, params, check_mode,
                  result, fd, fsAtStart, fsAtCheck, faulted, fsInit, creations,
                  creator, lastWriter >>

\* Mutant of AlreadyExists: the file is written whether or not it exists.
AlreadyExists_Never(p) == FALSE

\* Mutant of AlreadyExists: an existing file counts only when it already holds
\* the content, so a file with other content is rewritten.
AlreadyExists_SameContent(p) ==
  /\ exists(fs, params[p].path)
  /\ Stat(fs, params[p].path).key \in DOMAIN fs
  /\ fs[Stat(fs, params[p].path).key].bytes = params[p].content

\* if os.path.exists(path)
AlreadyExists(p) == exists(fs, params[p].path)

\* Mutant of InCheckMode: check mode is ignored.
InCheckMode_Ignored(p) == FALSE

\* if module.check_mode
InCheckMode(p) == check_mode[p]

\* "Check if file already exists"; otherwise result['created'] = True and, in
\* check mode, exit.
CheckExists(p) ==
  /\ pc[p] = "exists"
  /\ touched' = [touched EXCEPT ![p] = Append(@, "exists")]
  /\ fsAtCheck' = [fsAtCheck EXCEPT ![p] = fs]
  /\ IF AlreadyExists(p)
     THEN /\ result' = [result EXCEPT ![p].created = FALSE]
          /\ Finish(p, SuccessPayload(result'[p]))
     ELSE /\ result' = [result EXCEPT ![p].created = TRUE]
          /\ IF InCheckMode(p)
             THEN Finish(p, SuccessPayload(result'[p]))
             ELSE /\ pc' = [pc EXCEPT ![p] = "open"]
                  /\ out' = out
  /\ UNCHANGED << fs, createMode, target, inputs, budget, params, check_mode,
                  fd, fsAtStart, faulted, fsInit, creations, creator,
                  lastWriter >>

\* Mutant of HandleException: the exception is swallowed and the staged result
\* is returned as a success.
HandleException_Swallow(p, e) == Finish(p, SuccessPayload(result[p]))

\* except Exception as e: module.fail_json(msg=..., **result)
HandleException(p, e) ==
  Finish(p, FailurePayload(WriteFailedMsg(params[p].path, e), result[p]))

\* Mutant of OpenResult: the file is opened for exclusive creation ('x'), so
\* the open fails when the path exists by then.
OpenResult_Exclusive(p) ==
  IF exists(fs, params[p].path)
  THEN [errno |-> "EEXIST", key |-> <<>>, fs |-> fs]
  ELSE OpenForWrite(fs, params[p].path, createMode)

\* with open(path, 'w') as f: the open itself.
OpenResult(p) == OpenForWrite(fs, params[p].path, createMode)

OpenFile(p) ==
  /\ pc[p] = "open"
  /\ touched' = [touched EXCEPT ![p] = Append(@, "open")]
  /\ \/ /\ OpenResult(p).errno = ""
        /\ fs' = OpenResult(p).fs
        /\ fd' = [fd EXCEPT ![p] = OpenResult(p).key]
        /\ pc' = [pc EXCEPT ![p] = "write"]
        /\ UNCHANGED << out, faulted >>
     \/ /\ OpenResult(p).errno # ""
        /\ HandleException(p, OpenResult(p).errno)
        /\ UNCHANGED << fs, fd, faulted >>
     \/ \* The platform refuses the open (permission denied, read-only
        \* filesystem, quota, ...).
        /\ HandleException(p, "EACCES")
        /\ faulted' = [faulted EXCEPT ![p] = TRUE]
        /\ UNCHANGED << fs, fd >>
  /\ UNCHANGED << createMode, target, inputs, budget, params, check_mode,
                  result, fsAtStart, fsAtCheck, fsInit, creations, creator,
                  lastWriter >>

\* What f.write(content) hands to write(2).
DataWritten(p) == params[p].content

\* f.write(content) and the close that ends the with block: the buffered text
\* reaches the file in one write(2) at offset 0.
WriteContent(p) ==
  /\ pc[p] = "write"
  /\ touched' = [touched EXCEPT ![p] = Append(@, "write")]
  /\ fd' = [fd EXCEPT ![p] = <<>>]
  /\ lastWriter' = p
  /\ \/ /\ fs' = WriteAt0(fs, fd[p], DataWritten(p))
        /\ pc' = [pc EXCEPT ![p] = "chmod"]
        /\ UNCHANGED << out, faulted >>
     \/ \* The platform fails the write (disk full, I/O error) after some
        \* proper prefix of the data has landed.
        /\ \E n \in 0..Len(DataWritten(p)) :
             /\ n = 0 \/ n < Len(DataWritten(p))
             /\ fs' = WriteAt0(fs, fd[p], SubSeq(DataWritten(p), 1, n))
        /\ HandleException(p, "ENOSPC")
        /\ faulted' = [faulted EXCEPT ![p] = TRUE]
  /\ UNCHANGED << createMode, target, inputs, budget, params, check_mode,
                  result, fsAtStart, fsAtCheck, fsInit, creations, creator >>

\* Mutant of ModeValue: the mode parameter is ignored and the default 0644
\* applied.
ModeValue_Default(p) == OctalValue(Mode0644)

\* The second argument of os.chmod: int(mode, 8).
ModeValue(p) == OctalValue(params[p].mode)

ChmodResult(p) == Chmod(fs, params[p].path, ModeValue(p))

\* os.chmod(path, int(mode, 8)), and after write_file returned,
\* module.exit_json(**result).
SetMode(p) ==
  /\ pc[p] = "chmod"
  /\ touched' = [touched EXCEPT ![p] = Append(@, "chmod")]
  /\ \/ /\ ChmodResult(p).errno = ""
        /\ fs' = ChmodResult(p).fs
        /\ Finish(p, SuccessPayload(result[p]))
        /\ creations' = creations + 1
        /\ creator' = IF creations = 0 THEN params[p] ELSE creator
        /\ UNCHANGED faulted
     \/ /\ ChmodResult(p).errno # ""
        /\ HandleException(p, ChmodResult(p).errno)
        /\ UNCHANGED << fs, faulted, creations, creator >>
     \/ \* The platform refuses the chmod (not the owner, a filesystem
        \* without permission bits, ...).
        /\ HandleException(p, "EPERM")
        /\ faulted' = [faulted EXCEPT ![p] = TRUE]
        /\ UNCHANGED << fs, creations, creator >>
  /\ UNCHANGED << createMode, target, inputs, budget, params, check_mode,
                  result, fd, fsAtStart, fsAtCheck, fsInit, lastWriter >>

Next ==
  \E p \in Procs :
    \/ Start(p)
    \/ ValidateMode(p)
    \/ CheckParent(p)
    \/ CheckExists(p)
    \/ OpenFile(p)
    \/ WriteContent(p)
    \/ SetMode(p)

Spec == Init /\ [][Next]_vars

RaceSpec == RaceInit /\ [][Next]_vars

(***************************************************************************)
(* Vocabulary of the properties                                            *)
(***************************************************************************)
Done(p) == pc[p] = "done"

Succeeded(p) == Done(p) /\ ~out[p].failed

\* The invocation ended in success reporting created = b.
Reports(p, b) == Succeeded(p) /\ out[p].fields.created = b

InvalidMode == "Invalid mode"

MissingParentDirectory == "Parent directory does not exist"

WriteFailed == "Failed to create file"

FailedWith(p, kind) ==
  Done(p) /\ out[p].failed /\ out[p].fields.msg.text = kind

Last(s) == s[Len(s)]

Made(p, call) == \E i \in 1..Len(touched[p]) : touched[p][i] = call

IsPrefix(a, b) == Len(a) <= Len(b) /\ SubSeq(b, 1, Len(a)) = a

\* lstat: some entry, of any type, sits at the path itself (a final symlink
\* is not followed).
EntryAt(f, path) ==
  LET names == Components(path)
      dir == Walk(f, <<>>, SubSeq(names, 1, Len(names) - 1), 4)
  IN  /\ path # <<>>
      /\ \/ names = <<>>
         \/ /\ dir.st = "found"
            /\ IsDirKey(f, dir.key)
            /\ Append(dir.key, Last(names)) \in DOMAIN f

\* A regular file is what the path leads to.
FileAt(f, path) ==
  /\ Stat(f, path).st = "found"
  /\ Stat(f, path).key \in DOMAIN f
  /\ f[Stat(f, path).key].type = "file"

BytesAt(f, path) == f[Stat(f, path).key].bytes

PermAt(f, path) == f[Stat(f, path).key].perm

\* The parent directory of the path exists (an empty dirname is the working
\* directory).
ParentExists(f, path) == dirname(path) = <<>> \/ isdir(f, dirname(path))

C2_Case(p) ==
  /\ Done(p)
  /\ ~check_mode[p]
  /\ ParsesAsOctal(params[p].mode)
  /\ ParentExists(fsAtStart[p], params[p].path)
  /\ ~EntryAt(fsAtStart[p], params[p].path)
  /\ ~FailedWith(p, WriteFailed)

C2_Created(p, perm) ==
  /\ Reports(p, TRUE)
  /\ FileAt(fs, params[p].path)
  /\ BytesAt(fs, params[p].path) = params[p].content
  /\ PermAt(fs, params[p].path) = perm

\* C2 as stated: in that case the invocation succeeds with created = true and
\* the file at the path holds exactly the content, with permission bits equal
\* to the base-8 value of the mode string.
C2_AsStated ==
  \A p \in Procs : C2_Case(p) => C2_Created(p, OctalValue(params[p].mode))

\* C2 amended: the same, for a mode string whose base-8 value lies in
\* 0..0o7777 (a value outside that range is accepted too, and the file then
\* gets only its low twelve bits).
C2_CreationCorrect ==
  \A p \in Procs :
    C2_Case(p) /\ OctalValue(params[p].mode) \in 0..4095 =>
      C2_Created(p, OctalValue(params[p].mode))

\* A file was created with content "yy" and mode " 7_5" (0o75), which is
\* neither creation-time permission.
C2_Witness ==
  /\ C2_Case(1)
  /\ params[1].mode = Mode7_5
  /\ params[1].content = <<"y", "y">>
  /\ C2_Created(1, 61)

(***************************************************************************)
(* C3                                                                      *)
(***************************************************************************)
\* C3: an invocation in check mode never changes the tree, and when its mode
\* parses, the parent directory exists and no entry is at the path, it ends in
\* success with created = true and still no entry at the path.
C3_DryRunNonMutation ==
  \A p \in Procs :
    check_mode[p] /\ pc[p] # "idle" =>
      /\ fs = fsAtStart[p]
      /\ ( /\ Done(p)
           /\ ParsesAsOctal(params[p].mode)
           /\ ParentExists(fsAtStart[p], params[p].path)
           /\ ~EntryAt(fsAtStart[p], params[p].path)
           => Reports(p, TRUE) /\ ~EntryAt(fs, params[p].path) )

\* A dry run on an absent path under an existing directory reported
\* created = true.
C3_Witness ==
  /\ check_mode[1]
  /\ Reports(1, TRUE)
  /\ params[1].path = <<"/", "d", "/", "f">>
  /\ ~EntryAt(fs, params[1].path)
  /\ isdir(fs, <<"/", "d">>)

(***************************************************************************)
(* C4                                                                      *)
(***************************************************************************)
\* C4: an invocation whose mode string does not parse as base-8 gets no
\* further than the validation; it fails with InvalidMode carrying the mode
\* string, having made no filesystem call and changed nothing.
C4_ModeValidatedFirst ==
  \A p \in Procs :
    ~ParsesAsOctal(params[p].mode) /\ pc[p] # "idle" =>
      /\ pc[p] \in {"validate", "done"}
      /\ touched[p] = <<>>
      /\ fs = fsAtStart[p]
      /\ Done(p) =>
           /\ FailedWith(p, InvalidMode)
           /\ out[p].fields.msg.about = params[p].mode

\* Mode "89" was refused, not in check mode, although a file exists at the
\* path.
C4_Witness ==
  /\ FailedWith(1, InvalidMode)
  /\ params[1].mode = <<"8", "9">>
  /\ ~check_mode[1]
  /\ FileAt(fs, params[1].path)

(***************************************************************************)
(* C5                                                                      *)
(***************************************************************************)
\* The parent path each path of PathSet has, written out.
C5_ParentOf(path) ==
  CASE path = <<"/", "d", "/", "f">> -> <<"/", "d">>
    [] path = <<"l", "/", "f">> -> <<"l">>
    [] path = <<"d", "/">> -> <<"d">>
    [] OTHER -> <<>>

\* C5: an invocation with a mode that parses, whose path has a non-empty
\* parent that is not a directory, fails with MissingParentDirectory carrying
\* that parent path and changes nothing, whether or not an entry is at the
\* path and whether or not it runs in check mode.
C5_MissingParent ==
  \A p \in Procs :
    /\ Done(p)
    /\ ParsesAsOctal(params[p].mode)
    /\ C5_ParentOf(params[p].path) # <<>>
    /\ ~isdir(fsAtStart[p], C5_ParentOf(params[p].path))
    => /\ FailedWith(p, MissingParentDirectory)
       /\ out[p].fields.msg.about = C5_ParentOf(params[p].path)
       /\ fs = fsAtStart[p]

\* Path "d/" where d is a file: an entry is there, its parent "d" is no
\* directory, and the invocation, not in check mode, failed.
C5_Witness ==
  /\ FailedWith(1, MissingParentDirectory)
  /\ params[1].path = <<"d", "/">>
  /\ EntryAt(fs, params[1].path)
  /\ ~check_mode[1]

(***************************************************************************)
(* C6                                                                      *)
(***************************************************************************)
\* C6 as stated: every failure payload holds a message and the fields path
\* and content, equal to the invocation's inputs.
C6_FailurePayload ==
  \A p \in Procs :
    Done(p) /\ out[p].failed =>
      /\ {"msg", "path", "content"} \subseteq DOMAIN out[p].fields
      /\ out[p].fields.path = params[p].path
      /\ out[p].fields.content = params[p].content

(***************************************************************************)
(* C7                                                                      *)
(***************************************************************************)
\* C7: an invocation in which the open, the write or the chmod raised ends as
\* WriteFailed with created = true in its payload, never as a success; no call
\* is made twice; and nothing is rolled back: after a write that failed the
\* file is there with a prefix of the content, and after a write that
\* succeeded and a chmod that failed the file is there with the content and
\* the permission bits it was created with.
C7_WriteFailure ==
  \A p \in Procs :
    /\ Done(p) /\ (faulted[p] \/ (Made(p, "open") /\ Last(touched[p]) # "chmod"))
       => FailedWith(p, WriteFailed) /\ out[p].fields.created = TRUE
    /\ \A i, j \in 1..Len(touched[p]) : touched[p][i] = touched[p][j] => i = j
    /\ Done(p) /\ out[p].failed /\ Made(p, "write")
       => /\ FileAt(fs, params[p].path)
          /\ PermAt(fs, params[p].path) = createMode
          /\ IF Made(p, "chmod")
             THEN BytesAt(fs, params[p].path) = params[p].content
             ELSE IsPrefix(BytesAt(fs, params[p].path), params[p].content)

\* The write of "yy" succeeded and the chmod to 0o600 failed: the file holds
\* "yy" with the creation-time bits 0o644.
C7_Witness ==
  /\ FailedWith(1, WriteFailed)
  /\ Last(touched[1]) = "chmod"
  /\ params[1].mode = Mode0o600
  /\ params[1].content = <<"y", "y">>
  /\ BytesAt(fs, params[1].path) = <<"y", "y">>
  /\ PermAt(fs, params[1].path) = 420

(***************************************************************************)
(* C8                                                                      *)
(***************************************************************************)
\* The invocation that ended is the one that created the file.
C8_IsCreator(p) == Reports(p, TRUE) /\ ~check_mode[p] /\ params[p] = creator

\* At most one invocation that is not a dry run succeeds with created = true,
\* and every invocation with a valid mode that ends after it reports
\* created = false.
C8_Once ==
  /\ creations <= 1
  /\ creations = 1 =>
       \A p \in Procs :
         Done(p) /\ ParsesAsOctal(params[p].mode) =>
           Reports(p, FALSE) \/ C8_IsCreator(p)

\* C8 as stated: ... and from then on the file holds the content of the
\* creating invocation, with permission bits equal to the value of its mode.
C8_AsStated ==
  /\ C8_Once
  /\ creations = 1 =>
       /\ FileAt(fs, target)
       /\ BytesAt(fs, target) = creator.content
       /\ PermAt(fs, target) = OctalValue(creator.mode)

\* C8 amended: ... and from then on the file holds the content of the creating
\* invocation, with permission bits equal to the low twelve bits of the value
\* of its mode (the value itself when it lies in 0..0o7777).
C8_CreateOnce ==
  /\ C8_Once
  /\ creations = 1 =>
       /\ FileAt(fs, target)
       /\ BytesAt(fs, target) = creator.content
       /\ LET v == OctalValue(creator.mode)
          IN  PermAt(fs, target) = IF v \in 0..4095 THEN v ELSE v % 4096

\* After the creating invocation a later one, not a dry run, with another
\* content and another valid mode, reported created = false.
C8_Witness ==
  /\ creations = 1
  /\ Reports(1, FALSE)
  /\ ~check_mode[1]
  /\ params[1].content # creator.content
  /\ params[1].mode # creator.mode
  /\ BytesAt(fs, target) = creator.content

(***************************************************************************)
(* C9                                                                      *)
(***************************************************************************)
Other(p) == IF p = 1 THEN 2 ELSE 1

\* The existence check of the invocation found the path absent, and the
\* invocation then went on to write and met no platform error.
C9_PassedCheck(p) ==
  /\ Done(p)
  /\ Made(p, "exists")
  /\ ~exists(fsAtCheck[p], params[p].path)
  /\ ~check_mode[p]
  /\ ~faulted[p]

\* Whatever the other invocation did to the path in the meantime, the
\* invocation writes and returns success with created = true.
C9_Undetected == \A p \in Procs : C9_PassedCheck(p) => Reports(p, TRUE)

C9_BothCreated ==
  /\ lastWriter \in Procs
  /\ \A p \in Procs : C9_PassedCheck(p) /\ Reports(p, TRUE)

\* C9 as stated: ... and when both invocations reported created = true the
\* surviving bytes are those of the later writer.
C9_AsStated ==
  /\ C9_Undetected
  /\ C9_BothCreated => BytesAt(fs, target) = params[lastWriter].content

\* C9 amended: ... and when both invocations reported created = true the
\* surviving bytes begin with the content of the later writer; they are
\* exactly that content unless the earlier writer's content is longer and was
\* written after the later writer's open had truncated the file, in which case
\* the rest of the earlier writer's content follows it.
C9_CheckThenWriteRace ==
  /\ C9_Undetected
  /\ C9_BothCreated =>
       LET mine == params[lastWriter].content
           theirs == params[Other(lastWriter)].content
           bytes == BytesAt(fs, target)
       IN  /\ IsPrefix(mine, bytes)
           /\ \/ bytes = mine
              \/ /\ Len(theirs) > Len(mine)
                 /\ bytes = mine \o SubSeq(theirs, Len(mine) + 1, Len(theirs))

\* Both invocations found the path absent and reported created = true; the
\* file holds the longer content of the later writer, not the other's.
C9_Witness ==
  /\ C9_BothCreated
  /\ fsInit = Put(EmptyTree, KeyD, Dir)
  /\ params[lastWriter].content = <<"y", "y">>
  /\ params[Other(lastWriter)].content = <<"x">>
  /\ BytesAt(fs, target) = <<"y", "y">>

(***************************************************************************)
(* C10                                                                     *)
(***************************************************************************)
\* C10 as stated: with a valid mode and an existing parent directory, when an
\* entry of any type (file, directory, symlink whether dangling or not) is at
\* the path, the invocation returns success with created = false and path
\* and content as given, opens nothing and leaves the tree as it was.
C10_ExistenceGate ==
  \A p \in Procs :
    /\ Done(p)
    /\ ParsesAsOctal(params[p].mode)
    /\ ParentExists(fsAtStart[p], params[p].path)
    /\ EntryAt(fsAtStart[p], params[p].path)
    => /\ Reports(p, FALSE)
       /\ out[p].fields.path = params[p].path
       /\ out[p].fields.content = params[p].content
       /\ ~Made(p, "open")
       /\ fs = fsAtStart[p]

====
